---- MODULE Spec2Model ----
(***************************************************************************)
(* Model of pico_usb_adc (src/main.c): a two-core firmware.                *)
(*   core 0 (Context A, main):        capture N_SAMPLES ADC bytes by DMA   *)
(*                                    and write them to CDC interface 0.   *)
(*   core 1 (Context B, core1_entry): service the USB stack and pump every *)
(*                                    connected CDC interface through the  *)
(*                                    mutex-guarded Channel Buffers.       *)
(* The USB host, the ADC and the DMA engine are the environment.           *)
(***************************************************************************)
EXTENDS Integers, Sequences, FiniteSets, TLC

(* ---------------------------------------------------------------- sizes *)

\* Scaled-down program sizes (main.c: BUFFER_SIZE 2560, N_SAMPLES 500).
BUFFER_SIZE == 2
N_SAMPLES == 2
\* Number of CDC interfaces (UART_DATA[CFG_TUD_CDC]; interface 1 is used by mylog).
CFG_TUD_CDC == 2
\* Capacity of the transport's receive FIFO and of the ADC result FIFO.
MaxRx == 2
AdcFifoDepth == 1
\* Longest plain format string a call of mylog is given (log_buff has 512
\* bytes, main.c:63), and the bytes it is made of.
MaxLog == 2
LogBytes == {32, 120}

Itfs == 0 .. (CFG_TUD_CDC - 1)
\* The DMA channels dma_claim_unused_channel may hand out (two of the twelve).
Channels == 0 .. 1
BufIdx == 0 .. (BUFFER_SIZE - 1)
SampleIdx == 0 .. (N_SAMPLES - 1)

\* Mutex owners (pico-sdk mutex_t.owner): nobody, core 1 (Context B), or an
\* owner other than core 1.
Free == "free"
Core1 == "core1"
Other == "other"

\* Content of memory that was never written (sample_buf is an uninitialised
\* stack array, main.c:249).
Uninit == -1

\* The global dma_chan (main.c:47) has static storage and is never assigned:
\* setup declares a local of the same name (main.c:212), so the global keeps
\* its zero fill. It is the channel sample programs and waits on.
dma_chan == 0

\* No DMA channel: nothing has been programmed yet.
NoChannel == -1

\* The level at the analog input, as a 12-bit conversion result (full scale).
AnalogLevel == 4096 - 1

VARIABLES
  \* UART_DATA[itf] (main.c:48-61)
  usb_buffer, usb_pos, usb_mtx,
  uart_buffer, uart_pos, uart_mtx,
  \* Context B (core1_entry and the functions it calls): position and locals
  pcB, itf, con, len, count,
  \* Context A (main and sample): position and the capture buffer
  pcA, sample_buf,
  \* ADC, and the DMA channel sample uses: its transfer count and write address
  adc_en, adc_fifo, dma_count, dma_waddr,
  \* The channel setup claimed (its local dma_chan) and built cfg for, and the
  \* channel sample last programmed
  claimed, armed,
  \* USB transport, per interface: line state, receive FIFO indices (bytes
  \* taken / bytes sent so far), the bytes accepted by write calls and not yet
  \* flushed to the host
  connected, rx_head, rx_tail, tx_fifo,
  \* LED_PIN
  led,
  \* mylog (main.c:63-75): the position of a call of it, and the string in
  \* log_buff up to its terminating zero
  pcL, log_buff

bufvars == <<usb_buffer, usb_pos, usb_mtx, uart_buffer, uart_pos, uart_mtx>>
bvars == <<pcB, itf, con, len, count>>
avars == <<pcA, sample_buf>>
hwvars == <<adc_en, adc_fifo, dma_count, dma_waddr, claimed, armed>>
usbvars == <<connected, rx_head, rx_tail, tx_fifo>>
lvars == <<pcL, log_buff>>
vars == <<bufvars, bvars, avars, hwvars, usbvars, led, lvars>>

(* -------------------------------------------------------------- helpers *)

\* #define MIN(a, b) ((a > b) ? b : a)
MIN(a, b) == IF a > b THEN b ELSE a

\* The n-th byte (n = 0, 1, ...) the host sends on an interface.
HostByte(n) == (n + 1) % 256

\* The content the peripheral side is taken to have put at index j of a
\* device->host buffer.
UartByte(j) == (101 + j) % 256

\* tud_cdc_n_available: bytes waiting in the receive FIFO.
tud_cdc_n_available(i) == rx_tail[i] - rx_head[i]

\* mutex_try_enter succeeds exactly when nobody owns the mutex.
TryEnterAlways(m) == TRUE
mutex_try_enter(m) == m = Free

\* mutex_try_enter returns at once whatever the state of the mutex.
TryEnterBlocks(m) == m = Free
TryEnterReturns(m) == TRUE

\* len = MIN(len, BUFFER_SIZE - ud->usb_pos)
ReadLenUnclamped(avail, pos) == avail
ReadLen(avail, pos) == MIN(avail, BUFFER_SIZE - pos)

\* tud_cdc_n_read(itf, &buf[pos], n): the bytes rx[head .. head+cnt) land at
\* buf[pos .. pos+cnt).
StoreAtZero(buf, pos, head, cnt) ==
  [j \in DOMAIN buf |-> IF j < cnt THEN HostByte(head + j) ELSE buf[j]]
StoreRead(buf, pos, head, cnt) ==
  [j \in DOMAIN buf |->
     IF j >= pos /\ j < pos + cnt THEN HostByte(head + (j - pos)) ELSE buf[j]]

\* if (count < n) memmove(buf, &buf[count], n - count)
MemmoveNone(buf, cnt, n) == buf
Compact(buf, cnt, n) ==
  IF cnt < n
    THEN [j \in DOMAIN buf |-> IF j < n - cnt THEN buf[j + cnt] ELSE buf[j]]
    ELSE buf

\* The first n bytes of an array, as a sequence.
Prefix(buf, n) == [j \in 1 .. n |-> buf[j - 1]]

\* dma_channel_configure(..., N_SAMPLES, true): the transfer count.
TransferCountPlusOne == N_SAMPLES + 1
TransferCount == N_SAMPLES

\* adc_fifo_setup(..., true): each conversion is shifted to 8 bits.
AdcSample(raw) == raw \div 16

\* DMA_SIZE_8: one byte is written per transfer.
DmaByte(v) == v % 256

(* ----------------------------------------------------------------- Init *)

\* UART_DATA has static storage: buffers and positions start zero-filled.
InitBuffers ==
  /\ usb_buffer = [i \in Itfs |-> [j \in BufIdx |-> 0]]
  /\ usb_pos = [i \in Itfs |-> 0]
  /\ uart_buffer = [i \in Itfs |-> [j \in BufIdx |-> 0]]
  /\ uart_pos = [i \in Itfs |-> 0]

\* The mutexes are zero-filled too and mutex_init is never called on them.
\* Whether a zero-filled mutex_t reads as free or as owned (owner id 0) is
\* decided by the SDK, not by main.c, so both are start states; all mutexes
\* read the same way.
InitGuards ==
  \E m \in {Free, Other} :
    /\ usb_mtx = [i \in Itfs |-> m]
    /\ uart_mtx = [i \in Itfs |-> m]

InitRest ==
  /\ pcB = "task" /\ itf = 0 /\ con = 0 /\ len = 0 /\ count = 0
  /\ pcA = "check"
  /\ sample_buf = [j \in SampleIdx |-> Uninit]
  /\ adc_en = FALSE /\ adc_fifo = <<>> /\ dma_count = 0 /\ dma_waddr = 0
  /\ armed = NoChannel
  /\ connected = [i \in Itfs |-> FALSE]
  /\ rx_head = [i \in Itfs |-> 0]
  /\ rx_tail = [i \in Itfs |-> 0]
  /\ tx_fifo = [i \in Itfs |-> <<>>]
  /\ led = 0
  /\ pcL = "idle" /\ log_buff = <<>>

\* setup: uint dma_chan = dma_claim_unused_channel(true);
\*        cfg = dma_channel_get_default_config(dma_chan)
InitSetup == claimed \in Channels

\* The state when main enters its loop: zeroed globals, setup done, core 1
\* launched.
Init == InitBuffers /\ InitGuards /\ InitRest /\ InitSetup

\* Inputs of usb_write_bytes, drawn: no statement of main.c stores to
\* uart_buffer or raises uart_pos (C18), so no run of the program calls
\* usb_write_bytes with bytes pending. To state what the function does with
\* pending bytes, the device->host buffer of one interface h is given n of
\* them, 0 < n <= BUFFER_SIZE; everything else is as at program start (the
\* channel claimed is 0, the guards read alike).
InitDrain ==
  /\ InitGuards /\ InitRest /\ claimed = 0
  /\ usb_buffer = [i \in Itfs |-> [j \in BufIdx |-> 0]]
  /\ usb_pos = [i \in Itfs |-> 0]
  /\ \E h \in Itfs :
       /\ uart_buffer = [i \in Itfs |->
                          [j \in BufIdx |-> IF i = h THEN UartByte(j) ELSE 0]]
       /\ \E n \in 1 .. BUFFER_SIZE :
            uart_pos = [i \in Itfs |-> IF i = h THEN n ELSE 0]

(* ------------------------------------------------------ USB host (env) *)

HostConnect(i) ==
  /\ ~connected[i]
  /\ connected' = [connected EXCEPT ![i] = TRUE]
  /\ UNCHANGED <<lvars, bufvars, bvars, avars, hwvars, rx_head, rx_tail, tx_fifo, led>>

HostDisconnect(i) ==
  /\ connected[i]
  /\ connected' = [connected EXCEPT ![i] = FALSE]
  /\ UNCHANGED <<lvars, bufvars, bvars, avars, hwvars, rx_head, rx_tail, tx_fifo, led>>

HostSend(i) ==
  /\ connected[i]
  /\ tud_cdc_n_available(i) < MaxRx
  /\ rx_tail' = [rx_tail EXCEPT ![i] = @ + 1]
  /\ UNCHANGED <<lvars, bufvars, bvars, avars, hwvars, connected, rx_head, tx_fifo, led>>

Host == \E i \in Itfs : HostConnect(i) \/ HostDisconnect(i) \/ HostSend(i)

(* ------------------------------------------------- Context B (core 1) *)

\* Leave the body of the for loop: itf++ and the loop test.
NextItf ==
  /\ itf' = itf + 1
  /\ pcB' = IF itf + 1 < CFG_TUD_CDC THEN "conn" ELSE "led"

\* tud_task(); con = 0; itf = 0
B_task ==
  /\ pcB = "task"
  /\ pcB' = "conn" /\ itf' = 0 /\ con' = 0
  /\ UNCHANGED <<lvars, bufvars, len, count, avars, hwvars, usbvars, led>>

\* usb_cdc_process(itf) called without the test of the connection.
B_connPumpAlways ==
  /\ pcB = "conn"
  /\ con' = 1 /\ pcB' = "r_avail" /\ itf' = itf
  /\ UNCHANGED <<lvars, bufvars, len, count, avars, hwvars, usbvars, led>>

\* if (tud_cdc_n_connected(itf)) { con = 1; usb_cdc_process(itf); }
B_conn ==
  /\ pcB = "conn"
  /\ IF connected[itf]
       THEN con' = 1 /\ pcB' = "r_avail" /\ itf' = itf
       ELSE con' = con /\ NextItf
  /\ UNCHANGED <<lvars, bufvars, len, count, avars, hwvars, usbvars, led>>

\* usb_read_bytes: len = tud_cdc_n_available(itf)
B_r_avail ==
  /\ pcB = "r_avail"
  /\ len' = tud_cdc_n_available(itf)
  /\ pcB' = "r_try"
  /\ UNCHANGED <<lvars, bufvars, itf, con, count, avars, hwvars, usbvars, led>>

\* usb_read_bytes: if (len && mutex_try_enter(&ud->usb_mtx, NULL)); when the
\* test fails the function returns (its locals die) and usb_write_bytes starts.
B_r_try ==
  /\ pcB = "r_try"
  /\ len # 0 => TryEnterReturns(usb_mtx[itf])
  /\ IF len # 0 /\ mutex_try_enter(usb_mtx[itf])
       THEN usb_mtx' = [usb_mtx EXCEPT ![itf] = Core1] /\ pcB' = "r_min" /\ len' = len
       ELSE usb_mtx' = usb_mtx /\ pcB' = "w_try" /\ len' = 0
  /\ UNCHANGED <<lvars, usb_buffer, usb_pos, uart_buffer, uart_pos, uart_mtx,
                 itf, con, count, avars, hwvars, usbvars, led>>

\* usb_read_bytes: len = MIN(len, BUFFER_SIZE - ud->usb_pos); if (len)
B_r_min ==
  /\ pcB = "r_min"
  /\ len' = ReadLen(len, usb_pos[itf])
  /\ pcB' = IF len' # 0 THEN "r_read" ELSE "r_exit"
  /\ UNCHANGED <<lvars, bufvars, itf, con, count, avars, hwvars, usbvars, led>>

\* usb_read_bytes with the echo of main.c:91-92 compiled in: the bytes read are
\* written back to the interface and flushed.
B_r_readEcho ==
  /\ pcB = "r_read"
  /\ LET cnt == MIN(len, tud_cdc_n_available(itf)) IN
       /\ count' = cnt
       /\ usb_buffer' = [usb_buffer EXCEPT
                           ![itf] = StoreRead(@, usb_pos[itf], rx_head[itf], cnt)]
       /\ rx_head' = [rx_head EXCEPT ![itf] = @ + cnt]
       /\ usb_pos' = [usb_pos EXCEPT ![itf] = @ + cnt]
  /\ tx_fifo' = [tx_fifo EXCEPT ![itf] = <<>>]
  /\ pcB' = "r_exit"
  /\ UNCHANGED <<lvars, usb_mtx, uart_buffer, uart_pos, uart_mtx, itf, con, len,
                 avars, hwvars, connected, rx_tail, led>>

\* usb_read_bytes: count = tud_cdc_n_read(itf, &usb_buffer[usb_pos], len);
\*                 ud->usb_pos += count
B_r_read ==
  /\ pcB = "r_read"
  /\ LET cnt == MIN(len, tud_cdc_n_available(itf)) IN
       /\ count' = cnt
       /\ usb_buffer' = [usb_buffer EXCEPT
                           ![itf] = StoreRead(@, usb_pos[itf], rx_head[itf], cnt)]
       /\ rx_head' = [rx_head EXCEPT ![itf] = @ + cnt]
       /\ usb_pos' = [usb_pos EXCEPT ![itf] = @ + cnt]
  /\ pcB' = "r_exit"
  /\ UNCHANGED <<lvars, usb_mtx, uart_buffer, uart_pos, uart_mtx, itf, con, len,
                 avars, hwvars, connected, rx_tail, tx_fifo, led>>

\* usb_read_bytes emptying the buffer before it returns.
B_r_exitClear ==
  /\ pcB = "r_exit"
  /\ usb_mtx' = [usb_mtx EXCEPT ![itf] = Free]
  /\ usb_pos' = [usb_pos EXCEPT ![itf] = 0]
  /\ pcB' = "w_try" /\ len' = 0 /\ count' = 0
  /\ UNCHANGED <<lvars, usb_buffer, uart_buffer, uart_pos, uart_mtx,
                 itf, con, avars, hwvars, usbvars, led>>

\* usb_read_bytes: mutex_exit(&ud->usb_mtx); return
B_r_exit ==
  /\ pcB = "r_exit"
  /\ usb_mtx' = [usb_mtx EXCEPT ![itf] = Free]
  /\ pcB' = "w_try" /\ len' = 0 /\ count' = 0
  /\ UNCHANGED <<lvars, usb_buffer, usb_pos, uart_buffer, uart_pos, uart_mtx,
                 itf, con, avars, hwvars, usbvars, led>>

\* usb_write_bytes: if (ud->uart_pos && mutex_try_enter(&ud->uart_mtx, NULL))
B_w_try ==
  /\ pcB = "w_try"
  /\ uart_pos[itf] # 0 => TryEnterReturns(uart_mtx[itf])
  /\ IF uart_pos[itf] # 0 /\ mutex_try_enter(uart_mtx[itf])
       THEN /\ uart_mtx' = [uart_mtx EXCEPT ![itf] = Core1]
            /\ pcB' = "w_write" /\ itf' = itf
       ELSE /\ uart_mtx' = uart_mtx
            /\ NextItf
  /\ UNCHANGED <<lvars, usb_buffer, usb_pos, usb_mtx, uart_buffer, uart_pos,
                 con, len, count, avars, hwvars, usbvars, led>>

\* usb_write_bytes: count = tud_cdc_n_write(itf, ud->uart_buffer, ud->uart_pos)
\* The transport accepts k of the offered bytes, as its FIFO has room.
B_w_write ==
  /\ pcB = "w_write"
  /\ \E k \in 0 .. uart_pos[itf] :
       /\ count' = k
       /\ tx_fifo' = [tx_fifo EXCEPT ![itf] = @ \o Prefix(uart_buffer[itf], k)]
  /\ pcB' = "w_move"
  /\ UNCHANGED <<lvars, bufvars, itf, con, len, avars, hwvars,
                 connected, rx_head, rx_tail, led>>

\* usb_write_bytes: if (count < uart_pos) memmove(...); ud->uart_pos -= count
B_w_move ==
  /\ pcB = "w_move"
  /\ uart_buffer' = [uart_buffer EXCEPT ![itf] = Compact(@, count, uart_pos[itf])]
  /\ uart_pos' = [uart_pos EXCEPT ![itf] = @ - count]
  /\ pcB' = "w_exit"
  /\ UNCHANGED <<lvars, usb_buffer, usb_pos, usb_mtx, uart_mtx, itf, con, len, count,
                 avars, hwvars, usbvars, led>>

\* The flush issued whatever the write call returned.
B_w_exitAlwaysFlush ==
  /\ pcB = "w_exit"
  /\ uart_mtx' = [uart_mtx EXCEPT ![itf] = Free]
  /\ pcB' = "w_flush" /\ itf' = itf /\ count' = count
  /\ UNCHANGED <<lvars, usb_buffer, usb_pos, usb_mtx, uart_buffer, uart_pos,
                 con, len, avars, hwvars, usbvars, led>>

\* usb_write_bytes: mutex_exit(&ud->uart_mtx); if (count) ...
B_w_exit ==
  /\ pcB = "w_exit"
  /\ uart_mtx' = [uart_mtx EXCEPT ![itf] = Free]
  /\ IF count # 0
       THEN pcB' = "w_flush" /\ itf' = itf /\ count' = count
       ELSE NextItf /\ count' = 0
  /\ UNCHANGED <<lvars, usb_buffer, usb_pos, usb_mtx, uart_buffer, uart_pos,
                 con, len, avars, hwvars, usbvars, led>>

\* usb_write_bytes: tud_cdc_n_write_flush(itf); return
B_w_flush ==
  /\ pcB = "w_flush"
  /\ tx_fifo' = [tx_fifo EXCEPT ![itf] = <<>>]
  /\ NextItf /\ count' = 0
  /\ UNCHANGED <<lvars, bufvars, con, len, avars, hwvars, connected, rx_head, rx_tail, led>>

\* gpio_put(LED_PIN, con)
B_led ==
  /\ pcB = "led"
  /\ led' = con
  /\ pcB' = "task"
  /\ UNCHANGED <<lvars, bufvars, itf, con, len, count, avars, hwvars, usbvars>>

ContextB ==
  \/ B_task \/ B_conn
  \/ B_r_avail \/ B_r_try \/ B_r_min \/ B_r_read \/ B_r_exit
  \/ B_w_try \/ B_w_write \/ B_w_move \/ B_w_exit \/ B_w_flush
  \/ B_led

(* ------------------------------------------------- Context A (core 0) *)

\* sample entered without the test of the connection.
A_checkUnguarded ==
  /\ pcA = "check"
  /\ pcA' = "drain"
  /\ UNCHANGED <<lvars, bufvars, bvars, sample_buf, hwvars, usbvars, led>>

\* main: if (tud_cdc_n_connected(0)) sample(sample_buf); while interface 0 is
\* not connected the loop comes back to the test without changing anything.
A_check ==
  /\ pcA = "check"
  /\ connected[0]
  /\ pcA' = "drain"
  /\ UNCHANGED <<lvars, bufvars, bvars, sample_buf, hwvars, usbvars, led>>

\* sample: adc_fifo_drain()
A_drain ==
  /\ pcA = "drain"
  /\ adc_fifo' = <<>>
  /\ pcA' = "stop"
  /\ UNCHANGED <<lvars, bufvars, bvars, sample_buf, adc_en, dma_count, dma_waddr,
                 claimed, armed, usbvars, led>>

\* sample: adc_run(false)
A_stop ==
  /\ pcA = "stop"
  /\ adc_en' = FALSE
  /\ pcA' = "arm"
  /\ UNCHANGED <<lvars, bufvars, bvars, sample_buf, adc_fifo, dma_count, dma_waddr,
                 claimed, armed, usbvars, led>>

\* sample: dma_channel_configure(dma_chan, &cfg, capture_buf, &adc_hw->fifo,
\*                               N_SAMPLES, true)
\* The channel programmed is the one the global dma_chan names. cfg differs
\* between channels only in its chain-to field, which does not change how
\* the programmed channel moves the data.
A_arm ==
  /\ pcA = "arm"
  /\ dma_count' = TransferCount
  /\ dma_waddr' = 0
  /\ armed' = dma_chan
  /\ pcA' = "run"
  /\ UNCHANGED <<lvars, bufvars, bvars, sample_buf, adc_en, adc_fifo, claimed,
                 usbvars, led>>

\* sample: gpio_put(LED_PIN, 1); adc_run(true)
A_run ==
  /\ pcA = "run"
  /\ led' = 1
  /\ adc_en' = TRUE
  /\ pcA' = "wait"
  /\ UNCHANGED <<lvars, bufvars, bvars, sample_buf, adc_fifo, dma_count, dma_waddr,
                 claimed, armed, usbvars>>

\* sample returning without waiting for the transfer to finish.
A_waitNoBlock ==
  /\ pcA = "wait"
  /\ led' = 0
  /\ pcA' = "write"
  /\ UNCHANGED <<lvars, bufvars, bvars, sample_buf, hwvars, usbvars>>

\* sample: dma_channel_wait_for_finish_blocking(dma_chan); gpio_put(LED_PIN, 0)
A_wait ==
  /\ pcA = "wait"
  /\ dma_count = 0
  /\ led' = 0
  /\ pcA' = "write"
  /\ UNCHANGED <<lvars, bufvars, bvars, sample_buf, hwvars, usbvars>>

\* main: tud_cdc_n_write(0, sample_buf, sizeof(sample_buf)); the result is
\* not looked at.
A_write ==
  /\ pcA = "write"
  /\ \E k \in 0 .. N_SAMPLES :
       /\ tx_fifo' = [tx_fifo EXCEPT ![0] = @ \o Prefix(sample_buf, k)]
  /\ pcA' = "flush"
  /\ UNCHANGED <<lvars, bufvars, bvars, sample_buf, hwvars, connected, rx_head, rx_tail, led>>

\* main: tud_cdc_n_write_flush(0)
A_flush ==
  /\ pcA = "flush"
  /\ tx_fifo' = [tx_fifo EXCEPT ![0] = <<>>]
  /\ pcA' = "check"
  /\ UNCHANGED <<lvars, bufvars, bvars, sample_buf, hwvars, connected, rx_head, rx_tail, led>>

ContextA ==
  \/ A_check \/ A_drain \/ A_stop \/ A_arm \/ A_run \/ A_wait \/ A_write \/ A_flush

(* ------------------------------------------------------------ mylog *)

\* mylog (main.c:64-75). No function of main.c calls it, so its steps are no
\* steps of Context A or Context B and no disjunct of a Next; they are the
\* steps a caller on either core would take. mylog takes no guard, so the
\* other core and the host can act between any two of them.

\* The format strings a call is given that have no conversion specification
\* and fit log_buff with their terminating zero: for these sprintf ignores
\* its further argument and copies the format.
PlainFormats == UNION {[1 .. n -> LogBytes] : n \in 0 .. MaxLog}

\* mylog: if (tud_cdc_n_connected(1)); not connected: return.
L_conn ==
  /\ pcL = "idle"
  /\ pcL' = IF connected[1] THEN "fmt" ELSE "idle"
  /\ UNCHANGED <<bufvars, bvars, avars, hwvars, usbvars, led, log_buff>>

\* mylog: va_start(list, format); sprintf(log_buff, format, list);
\* With a plain format that fits, log_buff holds a copy of it. With any other
\* format the call has undefined behaviour: sprintf is handed a va_list where
\* a conversion expects the argument itself, and nothing bounds what it
\* writes by the 512 bytes of log_buff.
L_fmt ==
  /\ pcL = "fmt"
  /\ \/ pcL' = "write" /\ log_buff' \in PlainFormats
     \/ pcL' = "undefined" /\ log_buff' = log_buff
  /\ UNCHANGED <<bufvars, bvars, avars, hwvars, usbvars, led>>

\* After undefined behaviour in sprintf: a fault in which the call never
\* returns, a return with any string of any length in log_buff, stores over
\* any object of the program (UART_DATA, dma_chan, cfg, a stack), or anything
\* else the build produces. The next state is not constrained: no variable
\* keeps its value or its range, and the other actions of this module no
\* longer describe the program.
L_undefined == pcL = "undefined"

\* mylog: va_end(list); tud_cdc_n_write(1, log_buff, strlen(log_buff)); the
\* result is not looked at. The transport accepts k of the offered bytes.
L_write ==
  /\ pcL = "write"
  /\ \E k \in 0 .. Len(log_buff) :
       tx_fifo' = [tx_fifo EXCEPT ![1] = @ \o SubSeq(log_buff, 1, k)]
  /\ pcL' = "flush"
  /\ UNCHANGED <<bufvars, bvars, avars, hwvars, connected, rx_head, rx_tail,
                 led, log_buff>>

\* mylog: tud_cdc_n_write_flush(1); return
L_flush ==
  /\ pcL = "flush"
  /\ tx_fifo' = [tx_fifo EXCEPT ![1] = <<>>]
  /\ pcL' = "idle"
  /\ UNCHANGED <<bufvars, bvars, avars, hwvars, connected, rx_head, rx_tail,
                 led, log_buff>>

mylog == L_conn \/ L_fmt \/ L_undefined \/ L_write \/ L_flush

(* ---------------------------------------------------- ADC and DMA (env) *)

\* A conversion completes while the ADC runs; the result is pushed to the
\* result FIFO, or lost when the FIFO is full.
AdcConvert ==
  /\ adc_en
  /\ Len(adc_fifo) < AdcFifoDepth
  /\ adc_fifo' = Append(adc_fifo, AdcSample(AnalogLevel))
  /\ UNCHANGED <<lvars, bufvars, bvars, avars, adc_en, dma_count, dma_waddr,
                 claimed, armed, usbvars, led>>

\* One DMA transfer, paced by DREQ_ADC: FIFO -> capture_buf[waddr++].
DmaTransfer ==
  /\ dma_count > 0
  /\ adc_fifo # <<>>
  /\ sample_buf' = [j \in DOMAIN sample_buf |->
                      IF j = dma_waddr THEN DmaByte(Head(adc_fifo)) ELSE sample_buf[j]]
  /\ adc_fifo' = Tail(adc_fifo)
  /\ dma_waddr' = dma_waddr + 1
  /\ dma_count' = dma_count - 1
  /\ UNCHANGED <<lvars, bufvars, bvars, pcA, adc_en, claimed, armed, usbvars, led>>

Hardware == AdcConvert \/ DmaTransfer

(* ------------------------------------------------------- specifications *)

\* The whole program, with the steps it can take: both cores, the host, the
\* ADC and the DMA engine. Of Context B the four guarded steps of
\* usb_write_bytes are left out, since nothing enables them from Init;
\* B_w_try is kept whole, so a run that found a device->host buffer non-empty
\* behind a free guard would come to pcB = "w_write"; C18 states that no run
\* does.
ContextBProgram ==
  \/ B_task \/ B_conn
  \/ B_r_avail \/ B_r_try \/ B_r_min \/ B_r_read \/ B_r_exit
  \/ B_w_try
  \/ B_led
NextProgram == ContextA \/ ContextBProgram \/ Host \/ Hardware
SpecProgram == Init /\ [][NextProgram]_vars

\* The whole program with Context B scheduled fairly: core 1 runs nothing but
\* core1_entry, so a step of Context B that can be taken is taken. Nothing
\* is assumed of core 0, the host, the ADC or the DMA engine.
SpecLive == Init /\ [][NextProgram]_vars /\ WF_vars(ContextBProgram)

\* usb_write_bytes on drawn inputs: the start states are InitDrain, the steps
\* are those of core1_entry, which calls the function, and of the host, which
\* is the other end of the transport the function writes to. It states what
\* the function does when called with bytes pending; it is not a set of runs
\* of the program.
NextDrain == ContextB \/ Host
SpecDrain == InitDrain /\ [][NextDrain]_vars

(* --------------------------------------------------------------- claims *)

\* Context B is inside the guarded section of usb_read_bytes / usb_write_bytes.
InFill == pcB \in {"r_min", "r_read", "r_exit"}
InDrain == pcB \in {"w_write", "w_move", "w_exit"}

\* A step of Context B: every action of Context B moves pcB or, when the test
\* of a disconnected interface leads to the test of the next one, itf.
StepB == <<pcB, itf>>' # <<pcB, itf>>

\* C1: every Channel Buffer length stays within 0 .. BUFFER_SIZE, the region
\* tud_cdc_n_read is given to write lies inside usb_buffer, and the drain
\* never removes or hands over more bytes than the buffer holds.
C1_LengthAndIndexBounds ==
  /\ \A i \in Itfs :
       /\ 0 <= usb_pos[i] /\ usb_pos[i] <= BUFFER_SIZE
       /\ 0 <= uart_pos[i] /\ uart_pos[i] <= BUFFER_SIZE
  /\ pcB = "r_read" => (len > 0 /\ usb_pos[itf] + len <= BUFFER_SIZE)
  /\ pcB = "w_move" =>
       (count <= uart_pos[itf] /\ Len(tx_fifo[itf]) <= uart_pos[itf])

\* C1 witness: a fill about to write a clamped region that ends exactly at the
\* end of a buffer that already holds bytes, with more bytes on offer.
C1_Witness ==
  /\ pcB = "r_read"
  /\ usb_pos[itf] > 0
  /\ usb_pos[itf] + len = BUFFER_SIZE
  /\ tud_cdc_n_available(itf) > len

\* C2: a buffer's length and data change only while Context B owns that
\* buffer's guard; Context B owns the guard whenever it is inside the guarded
\* section, takes a guard only when it is free (so it is never inside together
\* with another holder), and the try on one guard of an interface succeeds
\* whenever that guard is free, whoever holds the other one.
C2_GuardedMutation ==
  [][ /\ \A i \in Itfs :
           /\ (usb_pos'[i] # usb_pos[i] \/ usb_buffer'[i] # usb_buffer[i])
                => (usb_mtx[i] = Core1 /\ usb_mtx'[i] = Core1)
           /\ (uart_pos'[i] # uart_pos[i] \/ uart_buffer'[i] # uart_buffer[i])
                => (uart_mtx[i] = Core1 /\ uart_mtx'[i] = Core1)
           /\ (usb_mtx'[i] = Core1 /\ usb_mtx[i] # Core1) => usb_mtx[i] = Free
           /\ (uart_mtx'[i] = Core1 /\ uart_mtx[i] # Core1) => uart_mtx[i] = Free
           /\ usb_mtx[i] = Other => usb_mtx'[i] = Other
           /\ uart_mtx[i] = Other => uart_mtx'[i] = Other
      /\ InFill' => usb_mtx'[itf'] = Core1
      /\ InDrain' => uart_mtx'[itf'] = Core1
      /\ (pcB = "r_try" /\ len # 0 /\ usb_mtx[itf] = Free /\ StepB)
           => pcB' = "r_min"
      /\ (pcB = "w_try" /\ uart_pos[itf] # 0 /\ uart_mtx[itf] = Free /\ StepB)
           => pcB' = "w_write"
    ]_vars

\* C2 witness: Context B is inside the fill of the last interface, about to
\* store behind bytes already held, and holds that buffer's guard and no
\* other.
C2_Witness ==
  /\ pcB = "r_read"
  /\ itf = CFG_TUD_CDC - 1
  /\ usb_pos[itf] > 0
  /\ usb_mtx[itf] = Core1
  /\ uart_mtx[itf] = Free /\ usb_mtx[0] = Free

\* C3: a fill that holds the guard requests min(available, capacity - length)
\* bytes, takes exactly the returned bytes from the transport, advances the
\* length by that number and leaves the bytes already stored as they were.
C3_FillAcceptsWhatFits ==
  [][ /\ (pcB = "r_min" /\ StepB) =>
           /\ len' = (IF len < BUFFER_SIZE - usb_pos[itf]
                        THEN len ELSE BUFFER_SIZE - usb_pos[itf])
           /\ len' <= BUFFER_SIZE - usb_pos[itf]
           /\ (len' = 0) = (pcB' = "r_exit")
      /\ (pcB = "r_read" /\ StepB) =>
           /\ count' = len
           /\ rx_head'[itf] - rx_head[itf] = count'
           /\ usb_pos'[itf] = usb_pos[itf] + count'
           /\ \A j \in BufIdx :
                j < usb_pos[itf] => usb_buffer'[itf][j] = usb_buffer[itf][j]
           /\ \A j \in BufIdx :
                (j >= usb_pos[itf] /\ j < usb_pos'[itf])
                  => usb_buffer'[itf][j] = HostByte(rx_head[itf] + (j - usb_pos[itf]))
    ]_vars

\* C3 witness: the second of two fills accepted one byte, filling the buffer,
\* and left a byte of its offer in the transport.
C3_Witness ==
  /\ pcB = "r_exit"
  /\ count = 1
  /\ usb_pos[itf] = BUFFER_SIZE
  /\ tud_cdc_n_available(itf) > 0

\* C4: a drain in which the transport accepts k of the n bytes held hands over
\* the first k bytes, leaves length n - k and moves bytes k .. n-1 to the
\* front in their order.
C4_DrainCompacts ==
  [][ /\ (pcB = "w_write" /\ StepB) =>
           /\ count' \in 0 .. uart_pos[itf]
           /\ tx_fifo'[itf] = tx_fifo[itf] \o Prefix(uart_buffer[itf], count')
      /\ (pcB = "w_move" /\ StepB) =>
           /\ uart_pos'[itf] = uart_pos[itf] - count
           /\ \A j \in BufIdx :
                j < uart_pos[itf] - count
                  => uart_buffer'[itf][j] = uart_buffer[itf][j + count]
    ]_vars

\* C4 witness: a full buffer was drained of one byte; the byte that was at
\* index 1 is now at the front.
C4_Witness ==
  /\ pcB = "w_exit"
  /\ count = 1
  /\ uart_pos[itf] = BUFFER_SIZE - 1
  /\ uart_buffer[itf][0] = UartByte(1)
  /\ tx_fifo[itf] = <<UartByte(0)>>

\* C5: with fills only, a host->device buffer's length is the number of bytes
\* taken from the transport and its content is those bytes in the order taken.
C5_FillsConcatenate ==
  \A i \in Itfs :
    /\ usb_pos[i] = rx_head[i]
    /\ \A j \in BufIdx : j < usb_pos[i] => usb_buffer[i][j] = HostByte(j)

\* C5 witness: a fill whose whole offer fitted added one byte behind bytes
\* stored by an earlier fill.
C5_Witness ==
  /\ pcB = "r_exit"
  /\ count = 1
  /\ usb_pos[itf] = 2
  /\ tud_cdc_n_available(itf) = 0
  /\ usb_buffer[itf][0] = HostByte(0) /\ usb_buffer[itf][1] = HostByte(1)

\* C6: on a buffer holding b[0..n), a drain of k bytes followed at once by a
\* fill offering k bytes leaves length n and content b[k..n) followed by the k
\* new bytes. Stated in every state in which the drain is about to remove its
\* k = count bytes: the drain's update (Compact, length - k) followed by the
\* fill's update (ReadLen, StoreRead, length + accepted) on the same array.
C6_DrainThenFill ==
  pcB = "w_move" =>
    LET b == uart_buffer[itf]
        n == uart_pos[itf]
        k == count
        h == rx_head[itf]
        drained == Compact(b, k, n)
        accepted == ReadLen(k, n - k)
        filled == StoreRead(drained, n - k, h, accepted)
    IN /\ (n - k) + accepted = n
       /\ \A j \in BufIdx : j < n - k => filled[j] = b[j + k]
       /\ \A j \in BufIdx :
            (j >= n - k /\ j < n) => filled[j] = HostByte(h + (j - (n - k)))

\* C6 witness: a drain of one byte out of a full buffer is about to update it.
C6_Witness ==
  /\ pcB = "w_move"
  /\ uart_pos[itf] = BUFFER_SIZE
  /\ count = 1

\* C7: when the guard is held by another party, the try step is taken at once,
\* the function returns, and no buffer field and no transport state changes
\* (nothing read, nothing written, no flush step).
C7_HeldGuardSkips ==
  /\ [](((pcB = "r_try" /\ len # 0 /\ usb_mtx[itf] # Free)
          \/ (pcB = "w_try" /\ uart_pos[itf] # 0 /\ uart_mtx[itf] # Free))
        => ENABLED ContextB)
  /\ [][ /\ (pcB = "r_try" /\ len # 0 /\ usb_mtx[itf] # Free /\ StepB)
              => (pcB' = "w_try" /\ UNCHANGED <<lvars, bufvars, usbvars>>)
         /\ (pcB = "w_try" /\ uart_pos[itf] # 0 /\ uart_mtx[itf] # Free /\ StepB)
              => (pcB' \in {"conn", "led"} /\ UNCHANGED <<lvars, bufvars, usbvars>>)
       ]_vars

\* C7 witness: the guards read as owned; Context B found the receive FIFO of
\* an interface full, tried that interface's host->device guard, took
\* nothing and is now at the head of usb_write_bytes.
C7_Witness ==
  /\ pcB = "w_try"
  /\ usb_mtx[itf] = Other
  /\ tud_cdc_n_available(itf) = MaxRx
  /\ usb_pos[itf] = 0

\* C8: the DMA engine writes only sample_buf[0 .. N_SAMPLES-1]; sample has
\* returned only when the transfer is complete, N_SAMPLES bytes have been
\* written since it was armed, and every byte of sample_buf is in 0 .. 255.
C8_CaptureComplete ==
  /\ dma_count > 0 => (dma_waddr \in SampleIdx /\ dma_waddr + dma_count = N_SAMPLES)
  /\ pcA \in {"write", "flush"} =>
       /\ dma_count = 0
       /\ dma_waddr = N_SAMPLES
       /\ \A j \in SampleIdx : sample_buf[j] \in 0 .. 255

\* C8 witness: sample returned with the full-scale reading in every slot.
C8_Witness ==
  /\ pcA = "write"
  /\ \A j \in SampleIdx : sample_buf[j] = 255

\* C9 (as claimed): whenever Context A has issued the write of a capture, the
\* bytes that entered the interface-0 stream are all N_SAMPLES bytes of
\* sample_buf, whatever number of bytes the write primitive accepted.
C9_WholeSampleSets ==
  pcA = "flush" => tx_fifo[0] = Prefix(sample_buf, N_SAMPLES)

\* C10: under fairness of Context B's steps, Context B always comes back to
\* the start of a pass of core1_entry (so every pass runs through its pumps
\* and its indicator write and the next one begins), whatever Context A, the
\* hardware and the host do (no fairness is assumed of them, so a transfer
\* may never complete) and whoever holds a guard.
C10_ContextBNeverBlocks == []<>(pcB = "task")

\* C10 witness: Context B reaches the end of a pass that pumped an interface
\* on which bytes were sent and whose guards read as owned, while Context A
\* waits for an incomplete transfer.
C10_Witness ==
  /\ pcB = "led" /\ con = 1
  /\ pcA = "wait" /\ dma_count > 0
  /\ \E i \in Itfs : usb_mtx[i] = Other /\ uart_mtx[i] = Other /\ rx_tail[i] > 0

StepA == pcA' # pcA

\* C12: Context A enters sample only from a test that saw interface 0
\* connected; when sample returns, the next step of Context A is the one write
\* call on interface 0 offering sample_buf, the step after it the one flush of
\* interface 0, and only then the next test; nothing else touches interface
\* 0's write path, and no step of Context A changes a Channel Buffer, its
\* length or its guard.
C12_CaptureWriteFlush ==
  [][ /\ (pcA = "check" /\ StepA) => (connected[0] /\ pcA' = "drain")
      /\ pcA' = "drain" => pcA \in {"check", "drain"}
      /\ (pcA = "wait" /\ StepA) => pcA' = "write"
      /\ (pcA = "write" /\ StepA) =>
           /\ pcA' = "flush"
           /\ \E k \in 0 .. N_SAMPLES :
                tx_fifo'[0] = tx_fifo[0] \o Prefix(sample_buf, k)
           /\ sample_buf' = sample_buf
      /\ (pcA = "flush" /\ StepA) => (pcA' = "check" /\ tx_fifo'[0] = <<>>)
      /\ tx_fifo'[0] # tx_fifo[0] => (pcA \in {"write", "flush"} /\ StepA)
      /\ StepA => UNCHANGED bufvars
    ]_vars

\* C12 witness: a whole cycle is done (capture, write, flush) and Context A is
\* back at the test of the connection.
C12_Witness ==
  /\ pcA = "check"
  /\ dma_waddr = N_SAMPLES /\ dma_count = 0
  /\ \A j \in SampleIdx : sample_buf[j] = 255
  /\ tx_fifo[0] = <<>>

\* C13: in usb_write_bytes the write call is reached only from a try made
\* with a non-empty buffer on a free guard, which Context B then holds; the
\* call offers the whole buffer and the bytes it did not accept are what the
\* buffer holds afterwards, in their order; the guard is released next, and
\* the flush is issued exactly when the call accepted at least one byte, with
\* the buffer already updated and the guard already released.
C13_WriteSide ==
  [][ /\ pcB' = "w_write" =>
           /\ pcB \in {"w_try", "w_write"}
           /\ uart_pos[itf] > 0
           /\ pcB = "w_try" => uart_mtx[itf] = Free
           /\ uart_mtx'[itf'] = Core1
      /\ (pcB = "w_write" /\ StepB) =>
           /\ count' \in 0 .. uart_pos[itf]
           /\ tx_fifo'[itf] = tx_fifo[itf] \o Prefix(uart_buffer[itf], count')
           /\ pcB' = "w_move"
      /\ (pcB = "w_move" /\ StepB) =>
           /\ uart_pos'[itf] = uart_pos[itf] - count
           /\ \A j \in BufIdx :
                j < uart_pos'[itf] => uart_buffer'[itf][j] = uart_buffer[itf][j + count]
           /\ uart_mtx'[itf] = Core1
           /\ pcB' = "w_exit"
      /\ (pcB = "w_exit" /\ StepB) =>
           /\ uart_mtx'[itf] = Free
           /\ (pcB' = "w_flush") = (count > 0)
           /\ UNCHANGED <<lvars, uart_buffer, uart_pos, tx_fifo>>
      /\ pcB' = "w_flush" => pcB \in {"w_exit", "w_flush"}
      /\ (pcB = "w_flush" /\ StepB) =>
           (tx_fifo'[itf] = <<>> /\ UNCHANGED <<lvars, uart_buffer, uart_pos, uart_mtx>>)
      /\ \A i \in Itfs :
           (StepB /\ tx_fifo'[i] # tx_fifo[i]) =>
             (itf = i /\ pcB \in {"w_write", "w_flush"})
    ]_vars

\* C13 witness: the transport took one byte of a full buffer; the remainder is
\* at the front, the guard is released and the flush is about to be issued.
C13_Witness ==
  /\ pcB = "w_flush"
  /\ count = 1
  /\ uart_pos[itf] = BUFFER_SIZE - 1
  /\ uart_buffer[itf][0] = UartByte(1)
  /\ uart_mtx[itf] = Free
  /\ tx_fifo[itf] = <<UartByte(0)>>

\* Context B is inside usb_read_bytes / inside usb_write_bytes.
InReadSide == pcB \in {"r_avail", "r_try", "r_min", "r_read", "r_exit"}
InWriteSide == pcB \in {"w_try", "w_write", "w_move", "w_exit", "w_flush"}

\* C14: a pass of core1_entry starts with tud_task, then tests the interfaces
\* in the order 0, 1, ..., CFG_TUD_CDC - 1, each once; an interface found
\* connected is pumped, usb_read_bytes first and usb_write_bytes after it, on
\* that same interface; an interface found disconnected is passed over; the
\* pass ends with the LED write after the last interface.
C14_PassOrder ==
  [][ /\ (pcB = "task" /\ StepB) => (pcB' = "conn" /\ itf' = 0)
      /\ pcB' = "task" => pcB \in {"led", "task"}
      /\ itf' # itf => (itf' = itf + 1 \/ (pcB = "task" /\ itf' = 0))
      /\ (pcB' = "conn" /\ StepB) =>
           (itf' \in Itfs /\ (pcB = "task" \/ itf' = itf + 1))
      /\ (pcB' = "led" /\ StepB) => (itf = CFG_TUD_CDC - 1 /\ itf' = CFG_TUD_CDC)
      /\ (pcB = "conn" /\ StepB) =>
           IF connected[itf]
             THEN pcB' = "r_avail" /\ itf' = itf
             ELSE pcB' \in {"conn", "led"} /\ itf' = itf + 1
      /\ (pcB' = "r_avail" /\ StepB) => pcB = "conn"
      /\ (InReadSide /\ StepB) => ((InReadSide' \/ pcB' = "w_try") /\ itf' = itf)
      /\ (pcB' = "w_try" /\ StepB) => pcB \in {"r_try", "r_exit"}
      /\ (InWriteSide /\ StepB) =>
           \/ InWriteSide' /\ pcB' # "w_try" /\ itf' = itf
           \/ pcB' \in {"conn", "led"} /\ itf' = itf + 1
    ]_vars

\* C14 witness: interface 0 is disconnected and was never sent anything; the
\* last interface was found connected, its read-side took bytes and its
\* write-side is about to be attempted.
C14_Witness ==
  /\ pcB = "w_try"
  /\ itf = CFG_TUD_CDC - 1
  /\ con = 1
  /\ ~connected[0] /\ rx_tail[0] = 0
  /\ usb_pos[0] = 0 /\ usb_pos[itf] > 0

\* C15: sample_buf is written only by the DMA engine, and only while a
\* transfer armed by sample is incomplete and Context A is inside sample
\* (between dma_channel_configure and the return of the wait); a transfer is
\* armed only by sample while no transfer is in progress; while Context A is
\* at the write call or the flush, no transfer is in progress and the buffer
\* does not change.
C15_SampleBufExclusive ==
  [][ /\ sample_buf' # sample_buf =>
           (dma_count > 0 /\ pcA \in {"run", "wait"} /\ pcA' = pcA)
      /\ dma_count' > dma_count => (pcA = "arm" /\ pcA' = "run" /\ dma_count = 0)
      /\ pcA \in {"write", "flush"} =>
           (dma_count = 0 /\ dma_count' = 0 /\ sample_buf' = sample_buf)
      /\ dma_count > 0 => pcA' \in {"run", "wait"}
    ]_vars

\* C15 witness: Context A is at the write call with a complete capture while
\* the ADC, still running, has a new result waiting in its FIFO.
C15_Witness ==
  /\ pcA = "write"
  /\ dma_count = 0 /\ dma_waddr = N_SAMPLES
  /\ adc_en /\ adc_fifo # <<>>

\* C16 (as claimed): whenever sample is about to arm the transfer, the ADC is
\* stopped and its result FIFO is empty, so that every result the transfer
\* takes was converted after this cycle's adc_run(true).
C16_ArmedOnEmptyFifo ==
  pcA = "arm" => (~adc_en /\ adc_fifo = <<>>)

\* C17: in the whole program no step lowers usb_pos of any interface; its
\* value is the number of bytes taken from that interface's transport so far;
\* from the moment it equals BUFFER_SIZE no step changes it, the buffer's data
\* or the transport's read position, so nothing more is read on it.
C17_ReadSideSaturates ==
  [][ \A i \in Itfs :
        /\ usb_pos'[i] >= usb_pos[i]
        /\ usb_pos[i] = rx_head[i]
        /\ usb_pos[i] = BUFFER_SIZE =>
             /\ usb_pos'[i] = BUFFER_SIZE
             /\ rx_head'[i] = rx_head[i]
             /\ usb_buffer'[i] = usb_buffer[i]
    ]_vars

\* C17 witness: usb_read_bytes found bytes waiting on an interface whose
\* buffer is full, took the guard, computed len = 0 and is about to return
\* without reading.
C17_Witness ==
  /\ pcB = "r_exit"
  /\ len = 0 /\ count = 0
  /\ usb_pos[itf] = BUFFER_SIZE
  /\ tud_cdc_n_available(itf) > 0

\* C18: in the whole program uart_pos of every interface is 0 in every state
\* and its buffer keeps its zero fill; Context B never gets past the test at
\* the head of usb_write_bytes, so it makes no write call and no flush and
\* no step of it changes the write path of any interface; the write path of
\* interface 0 changes only in a step of Context A at its write call or its
\* flush.
C18_OnlyContextAWrites ==
  /\ [](/\ \A i \in Itfs : uart_pos[i] = 0 /\ \A j \in BufIdx : uart_buffer[i][j] = 0
        /\ pcB \notin {"w_write", "w_move", "w_exit", "w_flush"})
  /\ [][ /\ (pcB = "w_try" /\ StepB) =>
              (pcB' \in {"conn", "led"} /\ UNCHANGED <<lvars, bufvars, usbvars>>)
         /\ StepB => tx_fifo' = tx_fifo
         /\ tx_fifo'[0] # tx_fifo[0] =>
              (pcA \in {"write", "flush"} /\ StepA /\ ~StepB)
       ]_vars

\* C18 witness: Context B is at the head of usb_write_bytes for interface 0,
\* whose guard is free, while Context A has written a capture to interface 0
\* and not flushed it yet.
C18_Witness ==
  /\ pcB = "w_try" /\ itf = 0
  /\ uart_mtx[0] = Free
  /\ pcA = "flush" /\ tx_fifo[0] # <<>>

\* C19 (as claimed): in the whole program Context B holds no guard between
\* passes, and every mutex_try_enter it comes to is made on a free guard, so
\* that the try succeeds and the skip branch is never taken.
C19_EveryTrySucceeds ==
  /\ pcB \in {"task", "conn", "led"} =>
       \A i \in Itfs : usb_mtx[i] # Core1 /\ uart_mtx[i] # Core1
  /\ (pcB = "r_try" /\ len # 0) => mutex_try_enter(usb_mtx[itf])
  /\ (pcB = "w_try" /\ uart_pos[itf] # 0) => mutex_try_enter(uart_mtx[itf])

\* C20 (as claimed): the channel sample has programmed, started and waits on
\* is the channel setup claimed and built cfg for, whichever channel the claim
\* returned.
C20_CaptureUsesClaimedChannel ==
  armed # NoChannel => armed = claimed

====
